---------------------------- MODULE Spec2Model ----------------------------
(***************************************************************************)
(* A model of the session pipeline of the Ollama agent-mode proxy:         *)
(*   - the Context Budgeter (ConversationManager.manage_context_window,    *)
(*     _estimate_token_count, _identify_tool_sequences), a pure function   *)
(*     checked under SpecBudget, whose initial states draw the inputs;     *)
(*   - the Session Store (ConversationManager.__init__, save_message,      *)
(*     get_history, session_exists) over its two backing modes, checked    *)
(*     under SpecStore;                                                    *)
(*   - the stream translators (main.transform_ollama_stream and            *)
(*     proxy.process_streaming_response), pure functions of the backend's  *)
(*     lines, checked under SpecStream;                                    *)
(*   - the Tool Orchestrator (main.transform_tool_calls, handle_tool_calls *)
(*     and ToolExecutor.execute_tool), one background task run call by     *)
(*     call, checked under SpecTools;                                      *)
(*   - the request handler (main.chat_completions and, for its responses,  *)
(*     proxy.chat_completions), checked under SpecChat.                    *)
(***************************************************************************)
EXTENDS Integers, Sequences, FiniteSets, TLC

VARIABLES
    messages,       \* budgeter: the input list of manage_context_window
    max_tokens,     \* budgeter: the token budget
    result,         \* budgeter: the list returned
    resultIdx,      \* budgeter: for each returned object, its position in the input
    pc,             \* budgeter: "call" before the call, "done" after, "idle" in SpecStore
    use_redis,      \* store: self.use_redis
    redis_up,       \* environment: is the key-value server reachable now
    redis,          \* environment: the key-value server's keys, conversation:<session_id>
    files,          \* environment: the files of storage_dir, <session_id>.json
    saved,          \* history: the list most recently written for each session
    idle,           \* history: time since the last write of each session, capped at expiry
    startup,        \* history: what the constructor found and the mode it chose
    lastOp,         \* history: the last store operation, its arguments and its outcome
    lines,          \* stream: the lines the backend sends, in order
    frames,         \* stream: the frames transform_ollama_stream yields
    pframes,        \* stream: the frames process_streaming_response yields
    translated,     \* stream: the translators that have run
    task,           \* orchestrator: the handle_tool_calls task, its arguments and locals
    req,            \* handler: the request being handled by chat_completions
    chat,           \* handler: the locals of chat_completions and its position
    backend,        \* environment: the requests the backend has received
    resp,           \* handler: the response returned to the client
    health,         \* handler: the last response of the health endpoint
    exec            \* tool executor: the file tool called, its path and what it touched

budgetVars == <<messages, max_tokens, result, resultIdx, pc>>
storeVars == <<use_redis, redis_up, redis, files, saved, idle, startup, lastOp>>
streamVars == <<lines, frames, pframes, translated>>
chatVars == <<req, chat, backend, resp, health>>
execVars == <<exec>>
vars == <<messages, max_tokens, result, resultIdx, pc,
          use_redis, redis_up, redis, files, saved, idle, startup, lastOp,
          lines, frames, pframes, translated, task, req, chat, backend, resp, health, exec>>

-----------------------------------------------------------------------------
(* Bounds of the model *)

\* longest input list given to the budgeter
MaxLen == 4

-----------------------------------------------------------------------------
(* Messages.  A text is named by a string; TextLen is its length in       *)
(* characters.  A message always carries the three fields; "" stands for  *)
(* absent or empty content, <<>> for absent or empty tool_calls.          *)

TextLen(t) ==
    CASE t = "" -> 0
      [] t = "hi" -> 2
      [] t = "sys" -> 40
      [] t = "q" -> 400
      [] t = "ans" -> 400
      [] t = "long" -> 4000
      [] t = "r" -> 40
      [] t = "R" -> 4000
      [] t = "builtin_read_file" -> 17
      [] t = "args" -> 20
      [] t = "huge" -> 20000
      [] OTHER -> Len(t)

Call == [id |-> "call_0", function |-> [name |-> "builtin_read_file", arguments |-> "args"]]

Msg(role, content, tool_calls) ==
    [role |-> role, content |-> content, tool_calls |-> tool_calls]

Msgs ==
    {Msg("system", "sys", <<>>)}
    \cup {Msg("user", c, <<>>) : c \in {"hi", "q", "long"}}
    \cup {Msg("assistant", "ans", <<>>), Msg("assistant", "", <<Call>>)}
    \cup {Msg("tool", c, <<>>) : c \in {"r", "R"}}

Budgets == {-1, 0, 10, 120, 1100, 2010, 4096}

SeqsUpTo(S, n) == UNION {[1..k -> S] : k \in 0..n}

Range(s) == {s[i] : i \in 1..Len(s)}

-----------------------------------------------------------------------------
(* ConversationManager._estimate_token_count *)

RECURSIVE SumCalls(_, _)
SumCalls(calls, i) ==
    IF i > Len(calls) THEN 0
    ELSE (TextLen(calls[i].function.name) \div 4)
         + (TextLen(calls[i].function.arguments) \div 4)
         + SumCalls(calls, i + 1)

\* one iteration of the loop over the messages
EstimateMsg(msg) ==
    4
    + (IF msg.content # "" THEN TextLen(msg.content) \div 4 ELSE 0)
    + (IF msg.tool_calls # <<>>
       THEN Len(msg.tool_calls) * 5 + SumCalls(msg.tool_calls, 1) ELSE 0)
    + (IF msg.role = "tool" THEN TextLen(msg.content) \div 4 ELSE 0)

RECURSIVE estimate_token_count(_)
estimate_token_count(msgs) ==
    IF msgs = <<>> THEN 0
    ELSE EstimateMsg(Head(msgs)) + estimate_token_count(Tail(msgs))


-----------------------------------------------------------------------------
(* ConversationManager._identify_tool_sequences.  The loop is run over    *)
(* the positions of msgs, so that every member of a sequence is known by  *)
(* the place it has in the list, as the objects of the code are.          *)

HasToolCalls(msg) == msg.tool_calls # <<>>

AppendIfAny_always(sequences, current_sequence) == Append(sequences, current_sequence)

AppendIfAny(sequences, current_sequence) ==
    IF current_sequence # <<>> THEN Append(sequences, current_sequence) ELSE sequences

RECURSIVE IdentifyLoop(_, _, _, _, _)
IdentifyLoop(msgs, i, sequences, current_sequence, in_tool_sequence) ==
    IF i > Len(msgs) THEN AppendIfAny(sequences, current_sequence)
    ELSE LET role == msgs[i].role IN
         IF role = "assistant" /\ HasToolCalls(msgs[i])
         THEN IdentifyLoop(msgs, i + 1, AppendIfAny(sequences, current_sequence),
                           <<i>>, TRUE)
         ELSE IF role = "tool" /\ in_tool_sequence
         THEN IdentifyLoop(msgs, i + 1, sequences, Append(current_sequence, i), TRUE)
         ELSE IF in_tool_sequence /\ role # "tool"
         THEN IdentifyLoop(msgs, i + 1, Append(sequences, current_sequence), <<i>>, FALSE)
         ELSE IdentifyLoop(msgs, i + 1, AppendIfAny(sequences, current_sequence),
                           <<i>>, in_tool_sequence)

\* the sequences, each as the positions of its messages in msgs
SequencePositions(msgs) == IdentifyLoop(msgs, 1, <<>>, <<>>, FALSE)

identify_tool_sequences(msgs) ==
    LET ps == SequencePositions(msgs)
    IN  [k \in 1..Len(ps) |-> [j \in 1..Len(ps[k]) |-> msgs[ps[k][j]]]]

-----------------------------------------------------------------------------
(* ConversationManager.manage_context_window.  rest is the list after the *)
(* system message has been taken off; a kept message is named by its      *)
(* position in rest, and the kept system message by position 0.           *)

LowBudgetThreshold == 1000

HasSystem(msgs) == msgs # <<>> /\ msgs[1].role = "system"

\* the loop of the low-budget path without the break of line 167
RECURSIVE TailFill_no_break(_, _, _, _)
TailFill_no_break(rest, i, last_messages, remaining_tokens) ==
    IF i = 0 THEN last_messages
    ELSE LET msg_tokens == EstimateMsg(rest[i]) IN
         IF msg_tokens <= remaining_tokens
         THEN TailFill_no_break(rest, i - 1, <<i>> \o last_messages,
                                remaining_tokens - msg_tokens)
         ELSE TailFill_no_break(rest, i - 1, last_messages, remaining_tokens)

\* lines 160-167: the loop of the low-budget path, from the most recent message
RECURSIVE TailFill(_, _, _, _)
TailFill(rest, i, last_messages, remaining_tokens) ==
    IF i = 0 THEN last_messages
    ELSE LET msg_tokens == EstimateMsg(rest[i]) IN
         IF msg_tokens <= remaining_tokens
         THEN TailFill(rest, i - 1, <<i>> \o last_messages, remaining_tokens - msg_tokens)
         ELSE last_messages

RECURSIVE SeqTokens(_, _)
SeqTokens(rest, sequence) ==
    IF sequence = <<>> THEN 0
    ELSE EstimateMsg(rest[Head(sequence)]) + SeqTokens(rest, Tail(sequence))

\* lines 176-187: the loop over the sequences, from the most recent one
RECURSIVE PackLoop(_, _, _, _, _)
PackLoop(rest, sequences, k, res, remaining_tokens) ==
    IF k = 0 THEN res
    ELSE LET sequence == sequences[k]
             seq_tokens == SeqTokens(rest, sequence)
             last_msg == sequence[Len(sequence)]
         IN  IF seq_tokens <= remaining_tokens
             THEN PackLoop(rest, sequences, k - 1, res \o sequence,
                           remaining_tokens - seq_tokens)
             ELSE IF sequence # <<>> /\ remaining_tokens > 0
                     /\ EstimateMsg(rest[last_msg]) <= remaining_tokens
             THEN PackLoop(rest, sequences, k - 1, Append(res, last_msg), remaining_tokens)
             ELSE PackLoop(rest, sequences, k - 1, res, remaining_tokens)

\* line 190, the key: messages.index(x) if x in messages else 0, by value equality
SortKey(rest, x) ==
    IF \E j \in 1..Len(rest) : rest[j] = x
    THEN (CHOOSE j \in 1..Len(rest) :
              rest[j] = x /\ \A h \in 1..(j - 1) : rest[h] # x) - 1
    ELSE 0

\* line 190, sorted(): a stable sort, equal keys keep the order they came in
RECURSIVE InsertByKey(_, _, _)
InsertByKey(sorted, p, key) ==
    IF sorted = <<>> THEN <<p>>
    ELSE IF key[sorted[Len(sorted)]] <= key[p] THEN Append(sorted, p)
    ELSE Append(InsertByKey(SubSeq(sorted, 1, Len(sorted) - 1), p, key),
                sorted[Len(sorted)])

RECURSIVE StableSort(_, _, _)
StableSort(s, i, key) ==
    IF i = 0 THEN <<>> ELSE InsertByKey(StableSort(s, i - 1, key), s[i], key)

\* lines 147-190: what is kept once the input is over the budget, as positions
\* in the input
WindowPositions(msgs, budget) ==
    LET off == IF HasSystem(msgs) THEN 1 ELSE 0
        kept0 == IF HasSystem(msgs) THEN <<0>> ELSE <<>>
        rest == IF HasSystem(msgs) THEN Tail(msgs) ELSE msgs
        system_tokens == IF HasSystem(msgs) THEN EstimateMsg(msgs[1]) ELSE 0
        remaining_tokens == budget - system_tokens
        at(p) == IF p = 0 THEN msgs[1] ELSE rest[p]
        kept == IF remaining_tokens < LowBudgetThreshold
                THEN kept0 \o TailFill(rest, Len(rest), <<>>, remaining_tokens)
                ELSE LET sequences == SequencePositions(rest)
                         res == PackLoop(rest, sequences, Len(sequences), kept0,
                                         remaining_tokens)
                         key == [p \in Range(res) |-> SortKey(rest, at(p))]
                     IN  StableSort(res, Len(res), key)
    IN  [k \in 1..Len(kept) |-> kept[k] + off]

\* the comparison of line 144 turned round
UnderLimit_inverted(msgs, budget) == estimate_token_count(msgs) >= budget

\* lines 137-145: the empty input and the input that is under the budget
UnderLimit(msgs, budget) == estimate_token_count(msgs) <= budget

\* the positions, in the input, of the objects manage_context_window returns
manage_context_window_idx(msgs, budget) ==
    IF msgs = <<>> THEN <<>>
    ELSE IF UnderLimit(msgs, budget) THEN [k \in 1..Len(msgs) |-> k]
    ELSE WindowPositions(msgs, budget)

manage_context_window(msgs, budget) ==
    LET idx == manage_context_window_idx(msgs, budget)
    IN  [k \in 1..Len(idx) |-> msgs[idx[k]]]

-----------------------------------------------------------------------------
(* The budgeter's specification: the inputs are drawn by Init, the one    *)
(* action is the call.                                                    *)

\* the other components take no part in a specification that pins them
StreamIdle ==
    /\ lines = <<>>
    /\ frames = <<>>
    /\ pframes = <<>>
    /\ translated = {"main", "proxy"}

TaskIdle == task = <<>>

ChatIdle ==
    /\ req = <<>>
    /\ chat = <<>>
    /\ backend = <<>>
    /\ resp = <<>>
    /\ health = <<>>

ExecIdle == exec = <<>>

StoreIdle ==
    /\ use_redis = FALSE
    /\ redis_up = FALSE
    /\ redis = <<>>
    /\ files = <<>>
    /\ saved = <<>>
    /\ idle = <<>>
    /\ startup = <<>>
    /\ lastOp = <<>>

InitBudget ==
    /\ messages \in SeqsUpTo(Msgs, MaxLen)
    /\ max_tokens \in Budgets
    /\ result = <<>>
    /\ resultIdx = <<>>
    /\ pc = "call"
    /\ StoreIdle
    /\ StreamIdle
    /\ TaskIdle
    /\ ChatIdle
    /\ ExecIdle

ManageContextWindow ==
    /\ pc = "call"
    /\ result' = manage_context_window(messages, max_tokens)
    /\ resultIdx' = manage_context_window_idx(messages, max_tokens)
    /\ pc' = "done"
    /\ UNCHANGED <<messages, max_tokens>>
    /\ UNCHANGED storeVars
    /\ UNCHANGED <<streamVars, task, chatVars, execVars>>

NextBudget == ManageContextWindow

SpecBudget == InitBudget /\ [][NextBudget]_vars

-----------------------------------------------------------------------------
(* The Session Store: ConversationManager over its two backing modes.     *)
(* Time is counted in ticks; a key of the key-value server with a time to *)
(* live is deleted by the server when that time has run out.              *)

\* longest list saved in the model of the store
MaxStoreLen == 1

\* self.expiry, in ticks
expiry == 2

Sessions == {"s1", "s2"}

StoreMsgs == {Msg("system", "sys", <<>>), Msg("assistant", "", <<Call>>)}

StoreLists == SeqsUpTo(StoreMsgs, MaxStoreLen)

\* json.dumps and json.loads of a message list: the text is modelled as the
\* list, for each message, of the key/value pairs it is written with
MessageKeys == <<"role", "content", "tool_calls", "tool_call_id", "name">>

KeysOf(msg) == SelectSeq(MessageKeys, LAMBDA k : k \in DOMAIN msg)

json_dumps(msgs) ==
    [i \in 1..Len(msgs) |->
        LET keys == KeysOf(msgs[i])
        IN  [j \in 1..Len(keys) |-> <<keys[j], msgs[i][keys[j]]>>]]

json_loads(data) ==
    [i \in 1..Len(data) |->
        [k \in {data[i][j][1] : j \in 1..Len(data[i])} |->
            data[i][CHOOSE j \in 1..Len(data[i]) : data[i][j][1] = k][2]]]

NoKey == [present |-> FALSE, data |-> <<>>, has_ttl |-> FALSE, ttl |-> 0]

NoFile == [present |-> FALSE, data |-> <<>>]

\* redis.set(key, value): the value is replaced and any time to live is dropped
redis_set(store, key, value) ==
    [store EXCEPT ![key] = [present |-> TRUE, data |-> value, has_ttl |-> FALSE, ttl |-> 0]]

\* redis.expire(key, seconds)
redis_expire(store, key, seconds) ==
    IF store[key].present
    THEN [store EXCEPT ![key].has_ttl = TRUE, ![key].ttl = seconds]
    ELSE store

\* open(session_file, "w") and json.dump
file_write(fs, name, value) ==
    [fs EXCEPT ![name] = [present |-> TRUE, data |-> value]]

\* lines 43-59: the mode the constructor chooses
Construct(redis_available, ping_ok) == redis_available /\ ping_ok

\* lines 94-106: what get_history returns in the given mode from the given
\* keys and files
HistoryValueOf(mode, keys, fs, s) ==
    IF mode
    THEN IF keys[s].present THEN json_loads(keys[s].data) ELSE <<>>
    ELSE IF fs[s].present THEN json_loads(fs[s].data) ELSE <<>>

\* what get_history returns when the backend of the mode answers
HistoryValue(s) == HistoryValueOf(use_redis, redis, files, s)

\* what session_exists returns when the backend of the mode answers
ExistsValue(s) ==
    IF use_redis THEN redis[s].present ELSE files[s].present

ModeName(mode) == IF mode THEN "redis" ELSE "file"

Op(op, s, msgs, ret, val, flag, prev) ==
    [op |-> op, sid |-> s, msgs |-> msgs, ret |-> ret, val |-> val, flag |-> flag,
     prev |-> prev, backend |-> ModeName(use_redis)]

NoOp == [op |-> "none", sid |-> "", msgs |-> <<>>, ret |-> "ok", val |-> <<>>,
         flag |-> FALSE, prev |-> <<>>, backend |-> ""]

BudgetIdle ==
    /\ messages = <<>>
    /\ max_tokens = 0
    /\ result = <<>>
    /\ resultIdx = <<>>
    /\ pc = "idle"

\* the state of the store after ConversationManager.__init__, lines 31-64
ConstructStore ==
    /\ redis_up \in BOOLEAN
    /\ \E redis_available \in BOOLEAN :
          /\ use_redis = Construct(redis_available, redis_up)
          /\ startup = [available |-> redis_available, ping |-> redis_up,
                        mode |-> Construct(redis_available, redis_up)]
    /\ redis = [s \in Sessions |-> NoKey]
    /\ files = [s \in Sessions |-> NoFile]
    /\ saved = [s \in Sessions |-> [any |-> FALSE, msgs |-> <<>>]]
    /\ idle = [s \in Sessions |-> 0]
    /\ lastOp = NoOp

InitStore ==
    /\ BudgetIdle
    /\ StreamIdle
    /\ TaskIdle
    /\ ChatIdle
    /\ ExecIdle
    /\ ConstructStore

\* the text save_message writes for the session
saved_data_appended(s, msgs) == json_dumps(HistoryValue(s) \o msgs)

saved_data(s, msgs) == json_dumps(msgs)

Written(s, msgs) ==
    /\ saved' = [saved EXCEPT ![s] = [any |-> TRUE, msgs |-> msgs]]
    /\ idle' = [idle EXCEPT ![s] = 0]

\* save_message on a server that went away falls back to the files for good
SaveMessage_fallback(s, msgs) ==
    /\ pc = "idle"
    /\ IF use_redis /\ redis_up
       THEN /\ redis' = redis_expire(redis_set(redis, s, saved_data(s, msgs)), s, expiry)
            /\ UNCHANGED <<files, use_redis>>
       ELSE /\ files' = file_write(files, s, saved_data(s, msgs))
            /\ use_redis' = FALSE
            /\ UNCHANGED redis
    /\ Written(s, msgs)
    /\ lastOp' = [Op("save", s, msgs, "ok", <<>>, FALSE, HistoryValue(s))
                     EXCEPT !.backend = ModeName(use_redis /\ redis_up)]
    /\ UNCHANGED <<redis_up, startup>>
    /\ UNCHANGED budgetVars

\* save_message, lines 66-82, when no call of it fails part-way
SaveMessage(s, msgs) ==
    /\ pc = "idle"
    /\ IF use_redis
       THEN IF redis_up
            THEN /\ redis' = redis_expire(redis_set(redis, s, saved_data(s, msgs)), s, expiry)
                 /\ Written(s, msgs)
                 /\ lastOp' = Op("save", s, msgs, "ok", <<>>, FALSE, HistoryValue(s))
                 /\ UNCHANGED files
            ELSE \* redis.set raises ConnectionError
                 /\ lastOp' = Op("save", s, msgs, "raise", <<>>, FALSE, <<>>)
                 /\ UNCHANGED <<redis, files, saved, idle>>
       ELSE /\ files' = file_write(files, s, saved_data(s, msgs))
            /\ Written(s, msgs)
            /\ lastOp' = Op("save", s, msgs, "ok", <<>>, FALSE, HistoryValue(s))
            /\ UNCHANGED redis
    /\ UNCHANGED <<use_redis, redis_up, startup>>
    /\ UNCHANGED budgetVars

\* save_message when the server is lost between redis.set (line 76) and
\* redis.expire (line 77): the value is written, the key has no time to live,
\* and the call raises
SaveMessageInterrupted(s, msgs) ==
    /\ pc = "idle"
    /\ use_redis /\ redis_up
    /\ redis' = redis_set(redis, s, saved_data(s, msgs))
    /\ redis_up' = FALSE
    /\ Written(s, msgs)
    /\ lastOp' = Op("save", s, msgs, "raise", <<>>, FALSE, HistoryValue(s))
    /\ UNCHANGED <<use_redis, files, startup>>
    /\ UNCHANGED budgetVars

\* get_history, lines 84-106
GetHistory(s) ==
    /\ pc = "idle"
    /\ lastOp' = IF use_redis /\ ~redis_up
                 THEN Op("get", s, <<>>, "raise", <<>>, FALSE, <<>>)
                 ELSE Op("get", s, <<>>, "ok", HistoryValue(s), FALSE, <<>>)
    /\ UNCHANGED <<use_redis, redis_up, redis, files, saved, idle, startup>>
    /\ UNCHANGED budgetVars

\* session_exists, lines 108-124
SessionExists(s) ==
    /\ pc = "idle"
    /\ lastOp' = IF use_redis /\ ~redis_up
                 THEN Op("exists", s, <<>>, "raise", <<>>, FALSE, <<>>)
                 ELSE Op("exists", s, <<>>, "ok", <<>>, ExistsValue(s), <<>>)
    /\ UNCHANGED <<use_redis, redis_up, redis, files, saved, idle, startup>>
    /\ UNCHANGED budgetVars

\* one tick of time: the server counts the times to live down and deletes the
\* keys whose time has run out; files are left as they are
Tick ==
    /\ pc = "idle"
    /\ redis' = [s \in Sessions |->
                    IF redis[s].present /\ redis[s].has_ttl
                    THEN IF redis[s].ttl <= 1 THEN NoKey
                         ELSE [redis[s] EXCEPT !.ttl = redis[s].ttl - 1]
                    ELSE redis[s]]
    /\ idle' = [s \in Sessions |-> IF idle[s] < expiry THEN idle[s] + 1 ELSE expiry]
    /\ lastOp' = [NoOp EXCEPT !.op = "tick"]
    /\ UNCHANGED <<use_redis, redis_up, files, saved, startup>>
    /\ UNCHANGED budgetVars

\* the key-value server becomes unreachable, or reachable again with its keys
RedisToggle ==
    /\ pc = "idle"
    /\ redis_up' = ~redis_up
    /\ UNCHANGED <<use_redis, redis, files, saved, idle, startup, lastOp>>
    /\ UNCHANGED budgetVars

NextStore ==
    \/ \E s \in Sessions, msgs \in StoreLists :
          SaveMessage(s, msgs) /\ UNCHANGED <<streamVars, task, chatVars, execVars>>
    \/ \E s \in Sessions, msgs \in StoreLists :
          SaveMessageInterrupted(s, msgs) /\ UNCHANGED <<streamVars, task, chatVars, execVars>>
    \/ \E s \in Sessions : GetHistory(s) /\ UNCHANGED <<streamVars, task, chatVars, execVars>>
    \/ \E s \in Sessions : SessionExists(s) /\ UNCHANGED <<streamVars, task, chatVars, execVars>>
    \/ Tick /\ UNCHANGED <<streamVars, task, chatVars, execVars>>
    \/ RedisToggle /\ UNCHANGED <<streamVars, task, chatVars, execVars>>

SpecStore == InitStore /\ [][NextStore]_vars

-----------------------------------------------------------------------------
(* Properties of the budgeter, under SpecBudget *)

Done == pc = "done"

SystemTokens == IF HasSystem(messages) THEN EstimateMsg(messages[1]) ELSE 0

SystemFits == SystemTokens <= max_tokens

Rest == IF HasSystem(messages) THEN Tail(messages) ELSE messages

Offset == IF HasSystem(messages) THEN 1 ELSE 0

OverBudget == estimate_token_count(messages) > max_tokens

\* the call took the sequence-packing path
PackingPath == OverBudget /\ max_tokens - SystemTokens >= LowBudgetThreshold

KeptPositions == Range(resultIdx)

\* a is a subsequence of b, by value
RECURSIVE IsSubsequence(_, _)
IsSubsequence(a, b) ==
    IF a = <<>> THEN TRUE
    ELSE IF b = <<>> THEN FALSE
    ELSE IF Head(a) = Head(b) THEN IsSubsequence(Tail(a), Tail(b))
    ELSE IsSubsequence(a, Tail(b))

\* C1: whenever the leading system message (if any) fits the budget by itself,
\* the returned list's estimated token count is at most max_tokens.
C1_OutputFitsBudget ==
    (Done /\ SystemFits) => estimate_token_count(result) <= max_tokens

\* C2: on the sequence-packing path, a tool message of a sequence that starts with
\* a tool-call-bearing assistant message is returned only together with that
\* assistant message.
C2_SequenceAtomicity ==
    (Done /\ PackingPath) =>
        \A k \in 1..Len(SequencePositions(Rest)) :
            LET sequence == SequencePositions(Rest)[k] IN
            \A j \in 2..Len(sequence) :
                (sequence[j] + Offset) \in KeptPositions
                    => (sequence[1] + Offset) \in KeptPositions

\* C3: the returned messages are in the relative order they have in the input:
\* the output is a subsequence of the input, duplicates included.
C3_OrderPreserved ==
    Done => IsSubsequence(result, messages)

\* C4: a leading system message that fits the budget by itself is returned, and
\* is the first element of the output.
C4_SystemFirst ==
    (Done /\ HasSystem(messages) /\ SystemFits) =>
        (result # <<>> /\ result[1] = messages[1])

\* C5: a list whose estimate is at most the budget is returned unchanged, the same
\* messages in the same order; the empty list is returned for the empty list.
C5_NoOpUnderBudget ==
    Done =>
        /\ (estimate_token_count(messages) <= max_tokens) =>
              (result = messages /\ resultIdx = [k \in 1..Len(messages) |-> k])
        /\ (messages = <<>>) => (result = <<>>)

C5_Witness ==
    /\ Done
    /\ Len(messages) >= 3
    /\ HasSystem(messages)
    /\ \E i \in 1..Len(messages) : messages[i].role = "tool"
    /\ estimate_token_count(messages) <= max_tokens
    /\ max_tokens - estimate_token_count(messages) < 100
    /\ result = messages

\* C6: when the leading system message alone exceeds the budget, the most recent
\* message, if it fits the budget by itself, is still returned (the tail-fill of
\* the most recent messages that fit), and the output is not empty.
C6_TailFillWhenSystemTooBig ==
    (Done /\ HasSystem(messages) /\ ~SystemFits /\ Len(messages) >= 2
          /\ EstimateMsg(messages[Len(messages)]) <= max_tokens) =>
        (result # <<>> /\ Len(messages) \in KeptPositions)

-----------------------------------------------------------------------------
(* Properties of the Session Store, under SpecStore *)

\* a log was saved for s and the idle period has not run out since
Live(s) == saved[s].any /\ idle[s] < expiry

StoreOps == {"save", "get", "exists"}

\* C7: get_history(s) returns the list most recently saved for s if one was saved
\* and has not expired, and the empty list otherwise; session_exists(s) is true
\* exactly when such a log exists.
C7_LoadReturnsLastSaved ==
    /\ (lastOp.op = "get" /\ lastOp.ret = "ok") =>
          lastOp.val = (IF Live(lastOp.sid) THEN saved[lastOp.sid].msgs ELSE <<>>)
    /\ (lastOp.op = "exists" /\ lastOp.ret = "ok") =>
          (lastOp.flag <=> Live(lastOp.sid))

\* C8: a save that returns replaces the stored log of its session by the list
\* saved, leaves every other session's stored log as it was, and, repeated right
\* after itself, leaves the whole store as the first save left it.
C8_SaveReplacesAndIsIdempotent ==
    [][(lastOp'.op = "save" /\ lastOp'.ret = "ok") =>
          /\ HistoryValueOf(use_redis', redis', files', lastOp'.sid) = lastOp'.msgs
          /\ \A o \in Sessions \ {lastOp'.sid} :
                redis'[o] = redis[o] /\ files'[o] = files[o]
          /\ (/\ lastOp.op = "save" /\ lastOp.ret = "ok"
              /\ lastOp.sid = lastOp'.sid /\ lastOp.msgs = lastOp'.msgs)
                => (redis' = redis /\ files' = files)]_vars

\* a save has just replaced a different, non-empty log while another session
\* holds a log of its own
C8_Witness ==
    /\ lastOp.op = "save" /\ lastOp.ret = "ok"
    /\ lastOp.prev # <<>> /\ lastOp.prev # lastOp.msgs
    /\ HistoryValue(lastOp.sid) = lastOp.msgs
    /\ \E o \in Sessions \ {lastOp.sid} :
          HistoryValue(o) # <<>> /\ HistoryValue(o) # lastOp.msgs

\* C9: in both modes a session stays available for the full idle period after
\* every save, and once it has had no write for that period it is discarded:
\* get_history gives the empty list and session_exists gives false.
C9_IdleSessionDiscarded ==
    \A s \in Sessions :
        /\ Live(s) => (ExistsValue(s) /\ HistoryValue(s) = saved[s].msgs)
        /\ (saved[s].any /\ idle[s] >= expiry) =>
              (HistoryValue(s) = <<>> /\ ~ExistsValue(s))

\* C10: the mode is the one the constructor chose, at every moment, and every
\* save, load and exists call goes to the backend of that mode.
C10_ModeDecidedOnce ==
    /\ use_redis = startup.mode
    /\ lastOp.op \in StoreOps => lastOp.backend = ModeName(startup.mode)

\* the server was unreachable at construction, is reachable now, and a save has
\* gone to the files
C10_Witness ==
    /\ startup.available /\ ~startup.ping /\ ~startup.mode
    /\ redis_up
    /\ lastOp.op = "save" /\ lastOp.ret = "ok" /\ lastOp.backend = "file"
    /\ files[lastOp.sid].present /\ ~redis[lastOp.sid].present

-----------------------------------------------------------------------------
(* Tool calls as the backend sends them and as the proxy hands them on.    *)
(* The backend's arguments are a JSON object, modelled as the list of its  *)
(* key/value pairs; its id may be absent.                                  *)

\* most tool calls in one backend response
MaxCalls == 2

ArgValues == {<<>>, <<<<"filepath", "a.py">>>>, <<<<"command", "ls">>>>}

\* json.dumps of an arguments object: the text, built pair by pair
RECURSIVE PairsText(_, _)
PairsText(pairs, i) ==
    IF i > Len(pairs) THEN ""
    ELSE (IF i > 1 THEN ", " ELSE "")
         \o "\"" \o pairs[i][1] \o "\": \"" \o pairs[i][2] \o "\""
         \o PairsText(pairs, i + 1)

json_dumps_arguments_empty(arguments) == "{}"

json_dumps_arguments(arguments) == "{" \o PairsText(arguments, 1) \o "}"

\* json.loads of an arguments text
json_loads_arguments(text) ==
    CHOOSE arguments \in ArgValues : json_dumps_arguments(arguments) = text

BackendCall(has_id, id, name, arguments) ==
    [has_id |-> has_id, id |-> id,
     function |-> [name |-> name, arguments |-> arguments]]

ToolArguments(name) ==
    CASE name = "builtin_read_file" -> <<<<"filepath", "a.py">>>>
      [] name = "builtin_run_terminal_command" -> <<<<"command", "ls">>>>
      [] OTHER -> <<>>

ToolNames == {"builtin_read_file", "builtin_run_terminal_command", "no_such_tool"}

\* the ids a backend may supply; "call_1" is also the id the proxy makes up
\* for the second call of a list
SuppliedIds == {"call_1"}

BackendCalls ==
    {BackendCall(FALSE, "", n, ToolArguments(n)) : n \in ToolNames}
    \cup {BackendCall(TRUE, id, n, ToolArguments(n)) : id \in SuppliedIds, n \in ToolNames}

\* an identifier counted from 1
SyntheticId_from_one(i) == "call_" \o ToString(i + 1)

\* f"call_{i}", i counted from 0
SyntheticId(i) == "call_" \o ToString(i)

\* transform_tool_calls, src/main.py lines 68-88
transform_tool_calls(tool_calls) ==
    [k \in 1..Len(tool_calls) |->
        [id |-> IF tool_calls[k].has_id THEN tool_calls[k].id ELSE SyntheticId(k - 1),
         type |-> "function",
         function |-> [name |-> tool_calls[k].function.name,
                       arguments |-> json_dumps_arguments(tool_calls[k].function.arguments)]]]

-----------------------------------------------------------------------------
(* The stream translators.  A backend line is blank, malformed (not JSON)  *)
(* or a JSON object {message: {content?, tool_calls?}, done}; "" and <<>>  *)
(* stand for an absent content and absent tool calls.                      *)

\* longest backend stream
MaxLines == 3

BlankLine == [text |-> "blank", content |-> "", tool_calls |-> <<>>, done |-> FALSE]

MalformedLine == [text |-> "malformed", content |-> "", tool_calls |-> <<>>, done |-> FALSE]

ChunkLine(content, tool_calls, done) ==
    [text |-> "json", content |-> content, tool_calls |-> tool_calls, done |-> done]

StreamCall == BackendCall(FALSE, "", "builtin_read_file", ToolArguments("builtin_read_file"))

StreamLines ==
    {BlankLine, MalformedLine}
    \cup {ChunkLine(c, t, d) : c \in {"", "Hi", " there"}, t \in {<<>>, <<StreamCall>>},
                               d \in BOOLEAN}

\* line.strip() is empty
IsBlank(line) == line.text = "blank"

\* json.loads(line) raises JSONDecodeError
IsMalformed(line) == line.text = "malformed"

\* a frame "data: <json>" with its delta and finish_reason, or the sentinel
Frame(role, content, tool_calls, finish_reason) ==
    [data |-> "chunk",
     delta |-> [role |-> role, content |-> content, tool_calls |-> tool_calls],
     finish_reason |-> finish_reason]

DoneSentinel ==
    [data |-> "[DONE]", delta |-> [role |-> "", content |-> "", tool_calls |-> <<>>],
     finish_reason |-> ""]

\* lines 108-142 of src/main.py: the frame of the message of a chunk
MessageFrames(chunk) ==
    IF chunk.tool_calls # <<>>
    THEN <<Frame("", "", transform_tool_calls(chunk.tool_calls), "null")>>
    ELSE IF chunk.content # ""
         THEN <<Frame("", chunk.content, <<>>, "null")>>
         ELSE <<>>

\* lines 144-157: the frame of the finish reason
FinishFrames(chunk) ==
    IF chunk.done THEN <<Frame("", "", <<>>, "stop")>> ELSE <<>>

RECURSIVE StreamLoop(_, _, _)

\* lines 159-160: except json.JSONDecodeError: continue
OnMalformed_abort(stream, i, out) == out

OnMalformed(stream, i, out) == StreamLoop(stream, i + 1, out)

\* the loop of transform_ollama_stream, lines 101-160
StreamLoop(stream, i, out) ==
    IF i > Len(stream) THEN out
    ELSE IF IsBlank(stream[i]) THEN StreamLoop(stream, i + 1, out)
    ELSE IF IsMalformed(stream[i]) THEN OnMalformed(stream, i, out)
    ELSE StreamLoop(stream, i + 1,
                    out \o MessageFrames(stream[i]) \o FinishFrames(stream[i]))

\* line 162 of src/main.py and line 210 of src/proxy.py
EndOfStream(out) == Append(out, DoneSentinel)

\* transform_ollama_stream, src/main.py lines 91-162
transform_ollama_stream(stream) == EndOfStream(StreamLoop(stream, 1, <<>>))

\* the loop of process_streaming_response, src/proxy.py lines 172-195
RECURSIVE ProxyLoop(_, _, _)
ProxyLoop(stream, i, out) ==
    IF i > Len(stream) THEN out
    ELSE IF IsBlank(stream[i]) \/ IsMalformed(stream[i]) THEN ProxyLoop(stream, i + 1, out)
    ELSE ProxyLoop(stream, i + 1,
                   IF stream[i].content # ""
                   THEN Append(out, Frame("", stream[i].content, <<>>, "null"))
                   ELSE out)

\* process_streaming_response, src/proxy.py lines 151-210
process_streaming_response(stream) ==
    EndOfStream(Append(ProxyLoop(stream, 1, <<Frame("assistant", "", <<>>, "null")>>),
                       Frame("", "", <<>>, "stop")))

InitStream ==
    /\ BudgetIdle
    /\ StoreIdle
    /\ TaskIdle
    /\ ChatIdle
    /\ ExecIdle
    /\ lines \in SeqsUpTo(StreamLines, MaxLines)
    /\ frames = <<>>
    /\ pframes = <<>>
    /\ translated = {}

TransformOllamaStream ==
    /\ "main" \notin translated
    /\ frames' = transform_ollama_stream(lines)
    /\ translated' = translated \cup {"main"}
    /\ UNCHANGED <<lines, pframes>>
    /\ UNCHANGED <<budgetVars, storeVars, task, chatVars, execVars>>

ProcessStreamingResponse ==
    /\ "proxy" \notin translated
    /\ pframes' = process_streaming_response(lines)
    /\ translated' = translated \cup {"proxy"}
    /\ UNCHANGED <<lines, frames>>
    /\ UNCHANGED <<budgetVars, storeVars, task, chatVars, execVars>>

NextStream == TransformOllamaStream \/ ProcessStreamingResponse

SpecStream == InitStream /\ [][NextStream]_vars

-----------------------------------------------------------------------------
(* Properties of the stream translators, under SpecStream *)

\* the lines that are JSON objects, in order
JsonLines(stream) == SelectSeq(stream, LAMBDA l : l.text = "json")

ContentLines(stream) == SelectSeq(JsonLines(stream), LAMBDA l : l.content # "")

ToolCallLines(stream) == SelectSeq(JsonLines(stream), LAMBDA l : l.tool_calls # <<>>)

DoneLines(stream) == SelectSeq(JsonLines(stream), LAMBDA l : l.done)

IsContentFrame(f) == f.data = "chunk" /\ f.delta.content # ""

IsToolCallFrame(f) == f.data = "chunk" /\ f.delta.tool_calls # <<>>

IsTerminalFrame(f) ==
    /\ f.data = "chunk"
    /\ f.finish_reason = "stop"
    /\ f.delta = [role |-> "", content |-> "", tool_calls |-> <<>>]

ContentFrames(out) == SelectSeq(out, IsContentFrame)

ToolCallFrames(out) == SelectSeq(out, IsToolCallFrame)

TerminalFrames(out) == SelectSeq(out, IsTerminalFrame)

Sentinels(out) == SelectSeq(out, LAMBDA f : f.data = "[DONE]")

HiThereDone ==
    <<ChunkLine("Hi", <<>>, FALSE), ChunkLine(" there", <<>>, FALSE), ChunkLine("", <<>>, TRUE)>>

\* C16: transform_ollama_stream emits, in line order and with no other frames,
\* one content-delta frame for each line with non-empty content (also when the
\* line carries tool calls) and one tool-call-delta frame for each line with
\* tool calls; for the lines [Hi, there, done] it emits the two content frames,
\* the terminal frame and the sentinel.
C16_OneFramePerContentAndToolCallLine ==
    "main" \in translated =>
        /\ Len(ContentFrames(frames)) = Len(ContentLines(lines))
        /\ \A k \in 1..Len(ContentLines(lines)) :
              k <= Len(ContentFrames(frames)) =>
                 ContentFrames(frames)[k].delta.content = ContentLines(lines)[k].content
        /\ Len(ToolCallFrames(frames)) = Len(ToolCallLines(lines))
        /\ \A k \in 1..Len(ToolCallLines(lines)) :
              k <= Len(ToolCallFrames(frames)) =>
                 ToolCallFrames(frames)[k].delta.tool_calls
                     = transform_tool_calls(ToolCallLines(lines)[k].tool_calls)
        /\ Len(frames) = Len(ContentLines(lines)) + Len(ToolCallLines(lines))
                         + Len(DoneLines(lines)) + 1
        /\ lines = HiThereDone =>
              frames = <<Frame("", "Hi", <<>>, "null"), Frame("", " there", <<>>, "null"),
                         Frame("", "", <<>>, "stop"), DoneSentinel>>

\* what C17 says of one emitted frame sequence
EndsProperly(out) ==
    /\ out # <<>>
    /\ out[Len(out)] = DoneSentinel
    /\ Len(Sentinels(out)) = 1
    /\ \A j, k \in 1..Len(out) :
          IsTerminalFrame(out[j]) /\ j < k =>
             ~IsContentFrame(out[k]) /\ ~IsToolCallFrame(out[k])

\* C17: for every backend stream the frames of both translators end with
\* exactly one [DONE] sentinel, as the last frame, and no content or tool-call
\* frame follows a terminal frame; transform_ollama_stream emits the terminal
\* frame for the line on which the backend signals completion.
C17_StreamEndsWithTerminalAndSentinel ==
    /\ "main" \in translated =>
          /\ EndsProperly(frames)
          /\ Len(TerminalFrames(frames)) = Len(DoneLines(lines))
    /\ "proxy" \in translated => EndsProperly(pframes)

WithoutMalformed(stream) == SelectSeq(stream, LAMBDA l : ~IsMalformed(l))

\* C18: a malformed line is skipped and does not abort the stream: the frames
\* emitted for the lines equal the frames emitted for the lines without the
\* malformed ones, in both translators.
C18_MalformedLinesSkipped ==
    /\ "main" \in translated => frames = transform_ollama_stream(WithoutMalformed(lines))
    /\ "proxy" \in translated => pframes = process_streaming_response(WithoutMalformed(lines))

C18_Witness ==
    /\ translated = {"main", "proxy"}
    /\ lines = <<ChunkLine("Hi", <<>>, FALSE), MalformedLine, ChunkLine(" there", <<>>, TRUE)>>
    /\ Len(ContentFrames(frames)) = 2
    /\ Len(ContentFrames(pframes)) = 2
    /\ frames[Len(frames)] = DoneSentinel

-----------------------------------------------------------------------------
(* The Tool Orchestrator: handle_tool_calls as a background task, one      *)
(* step per tool call.  What a capability does is the environment's        *)
(* choice: it returns a result, returns its own structured error, raises,  *)
(* or (a subprocess awaited without a time limit) never returns.           *)

\* ToolExecutor.execute_tool, lines 47-59: the registered names
Handlers ==
    {"builtin_read_file", "builtin_edit_existing_file", "builtin_create_new_file",
     "builtin_run_terminal_command", "builtin_grep_search", "builtin_file_glob_search",
     "builtin_search_web", "builtin_view_diff", "builtin_read_currently_open_file",
     "builtin_ls", "builtin_create_rule_block"}

\* the handlers that await a subprocess with process.communicate() and no
\* time limit
AwaitsSubprocess == {"builtin_run_terminal_command"}

\* what a handler that returns can do
Outcomes == {"ok", "error", "raise"}

ToolResult(is_error, text) == [is_error |-> is_error, text |-> text]

\* the unknown-tool result of execute_tool, lines 61-63
UnknownToolResult_empty(tool_name) == ToolResult(FALSE, "")

UnknownToolResult(tool_name) == ToolResult(TRUE, "Unknown tool: " \o tool_name)

\* execute_tool, lines 36-68, for a handler call with the given outcome
execute_tool(tool_name, arguments, outcome) ==
    IF tool_name \notin Handlers THEN UnknownToolResult(tool_name)
    ELSE CASE outcome = "ok" -> ToolResult(FALSE, "done")
           [] outcome = "error" -> ToolResult(TRUE, "failed")
           [] outcome = "raise" -> ToolResult(TRUE, "Tool execution failed: " \o "TypeError")

\* json.dumps(tool_result), src/main.py line 206
json_dumps_result(tool_result) ==
    IF tool_result.is_error
    THEN "{\"error\": \"" \o tool_result.text \o "\"}"
    ELSE "{\"result\": \"" \o tool_result.text \o "\"}"

\* the assistant message of lines 184-187
AssistantMessage(tool_calls) == Msg("assistant", "", tool_calls)

\* the tool message of lines 202-207
ToolMessage_no_id(call, tool_name, tool_result) ==
    [role |-> "tool", content |-> json_dumps_result(tool_result), tool_calls |-> <<>>,
     tool_call_id |-> "", name |-> tool_name]

ToolMessage(call, tool_name, tool_result) ==
    [role |-> "tool", content |-> json_dumps_result(tool_result), tool_calls |-> <<>>,
     tool_call_id |-> call.id, name |-> tool_name]

\* a task as background_tasks.add_task leaves it, src/main.py lines 291-299
NewTask(session_id, msgs, backend_calls) ==
    [pc |-> "scheduled", session_id |-> session_id, messages |-> msgs,
     backend_calls |-> backend_calls, tool_calls |-> transform_tool_calls(backend_calls),
     new_messages |-> <<>>, i |-> 1, outcomes |-> <<>>]

TaskMessages ==
    {<<>>, <<Msg("user", "hi", <<>>)>>, <<Msg("system", "sys", <<>>), Msg("user", "hi", <<>>)>>}

BackendCallLists == SeqsUpTo(BackendCalls, MaxCalls) \ {<<>>}

InitTools ==
    /\ BudgetIdle
    /\ StreamIdle
    /\ ChatIdle
    /\ ExecIdle
    /\ ConstructStore
    /\ \E s \in Sessions, msgs \in TaskMessages, calls \in BackendCallLists :
          task = NewTask(s, msgs, calls)

\* a task that begins by sending the conversation to the backend again
StartTask_calls_backend ==
    /\ task.pc = "scheduled"
    /\ task' = [task EXCEPT !.pc = "loop",
                            !.new_messages = Append(task.messages,
                                                    AssistantMessage(task.tool_calls))]
    /\ backend' = Append(backend, task.messages)
    /\ UNCHANGED <<budgetVars, storeVars, streamVars, req, chat, resp, health, execVars>>

\* lines 181-188: copy the messages and append the assistant message
StartTask ==
    /\ task.pc = "scheduled"
    /\ task' = [task EXCEPT !.pc = "loop",
                            !.new_messages = Append(task.messages,
                                                    AssistantMessage(task.tool_calls))]
    /\ UNCHANGED <<budgetVars, storeVars, streamVars, chatVars, execVars>>

\* lines 191-208: one iteration of the loop, for a call that returns
ExecuteCall(outcome) ==
    /\ task.pc = "loop"
    /\ task.i <= Len(task.tool_calls)
    /\ LET call == task.tool_calls[task.i]
           tool_name == call.function.name
           tool_arguments == json_loads_arguments(call.function.arguments)
           tool_result == execute_tool(tool_name, tool_arguments, outcome)
       IN  task' = [task EXCEPT
                       !.new_messages = Append(task.new_messages,
                                               ToolMessage(call, tool_name, tool_result)),
                       !.i = task.i + 1,
                       !.outcomes = Append(task.outcomes,
                                           IF tool_name \in Handlers THEN outcome
                                           ELSE "unknown")]
    /\ UNCHANGED <<budgetVars, storeVars, streamVars, chatVars, execVars>>

\* line 199 when the awaited handler never returns: run_terminal_command awaits
\* process.communicate() (src/tool_executor.py line 158) without a time limit
CallNeverReturns ==
    /\ task.pc = "loop"
    /\ task.i <= Len(task.tool_calls)
    /\ task.tool_calls[task.i].function.name \in AwaitsSubprocess
    /\ task' = [task EXCEPT !.pc = "blocked"]
    /\ UNCHANGED <<budgetVars, storeVars, streamVars, chatVars, execVars>>

\* lines 210-213: save the updated conversation and return
Persist ==
    /\ task.pc = "loop"
    /\ task.i > Len(task.tool_calls)
    /\ SaveMessage(task.session_id, task.new_messages)
    /\ task' = [task EXCEPT !.pc = IF lastOp'.ret = "raise" THEN "raised" ELSE "done"]
    /\ UNCHANGED <<streamVars, chatVars, execVars>>

NextTools ==
    \/ StartTask
    \/ \E outcome \in Outcomes : ExecuteCall(outcome)
    \/ CallNeverReturns
    \/ Persist

SpecTools == InitTools /\ [][NextTools]_vars

-----------------------------------------------------------------------------
(* Properties of the Tool Orchestrator, under SpecTools *)

\* the log stored for the task's session
TaskLog == HistoryValue(task.session_id)

\* the place in the log before the first tool message
Base == Len(task.messages) + 1

\* C11: when handle_tool_calls has completed, the log stored for the session
\* is the given messages, then one assistant message with all the calls in
\* order, then one tool message per call in call order, the i-th with the id
\* and the name of the i-th call.
C11_LogAfterToolCalls ==
    task.pc = "done" =>
        /\ Len(TaskLog) = Len(task.messages) + 1 + Len(task.tool_calls)
        /\ \A k \in 1..Len(task.messages) : TaskLog[k] = task.messages[k]
        /\ TaskLog[Base].role = "assistant"
        /\ TaskLog[Base].tool_calls = task.tool_calls
        /\ \A k \in 1..Len(task.tool_calls) :
              /\ TaskLog[Base + k].role = "tool"
              /\ TaskLog[Base + k].tool_call_id = task.tool_calls[k].id
              /\ TaskLog[Base + k].name = task.tool_calls[k].function.name

C11_Witness ==
    /\ task.pc = "done"
    /\ Len(task.messages) = 2
    /\ Len(task.tool_calls) = 2
    /\ Len(TaskLog) = 5
    /\ TaskLog[3].tool_calls = task.tool_calls
    /\ TaskLog[4].tool_call_id = "call_0"
    /\ TaskLog[5].tool_call_id = "call_1"
    /\ TaskLog[5].name = "builtin_run_terminal_command"

IsUnknown(call) == call.function.name \notin Handlers

UnknownToolText(tool_name) == "{\"error\": \"Unknown tool: " \o tool_name \o "\"}"

\* C12: a call naming an unregistered capability yields a tool message whose
\* content is the unknown-tool error, the orchestrator does not raise, and the
\* loop goes on: when the task has completed every call of the batch has its
\* tool message in the stored log, with the content its execution gave.
C12_UnknownToolIsAResult ==
    /\ task.pc # "raised"
    /\ task.pc \in {"loop", "blocked", "done"} =>
          \A k \in 1..Len(task.tool_calls) :
             k < task.i /\ IsUnknown(task.tool_calls[k]) =>
                /\ task.new_messages[Base + k].role = "tool"
                /\ task.new_messages[Base + k].content
                      = UnknownToolText(task.tool_calls[k].function.name)
    /\ task.pc = "loop" /\ task.i <= Len(task.tool_calls)
          /\ IsUnknown(task.tool_calls[task.i]) => ENABLED ExecuteCall("ok")
    /\ task.pc = "done" =>
          /\ Len(TaskLog) = Base + Len(task.tool_calls)
          /\ \A k \in 1..Len(task.tool_calls) :
                TaskLog[Base + k].content =
                   IF IsUnknown(task.tool_calls[k])
                   THEN UnknownToolText(task.tool_calls[k].function.name)
                   ELSE json_dumps_result(
                           execute_tool(task.tool_calls[k].function.name,
                                        json_loads_arguments(
                                            task.tool_calls[k].function.arguments),
                                        task.outcomes[k]))

C12_Witness ==
    /\ task.pc = "done"
    /\ Len(task.tool_calls) = 2
    /\ IsUnknown(task.tool_calls[1])
    /\ ~IsUnknown(task.tool_calls[2])
    /\ task.outcomes = <<"unknown", "ok">>
    /\ TaskLog[Base + 1].content = "{\"error\": \"Unknown tool: no_such_tool\"}"
    /\ TaskLog[Base + 2].content = "{\"result\": \"done\"}"

\* C13: whatever the outcomes of the calls, handle_tool_calls advances to every
\* call, records each failure as that call's tool-message content and persists
\* the log: it does not raise, and until it has completed it can take a step.
C13_EveryCallAdvancesAndLogIsPersisted ==
    /\ task.pc # "raised"
    /\ task.pc \in {"loop", "blocked", "done"} =>
          \A k \in 1..Len(task.outcomes) :
             task.outcomes[k] # "ok" =>
                task.new_messages[Base + k].content
                   = json_dumps_result(
                        execute_tool(task.tool_calls[k].function.name, <<>>,
                                     task.outcomes[k]))
    /\ task.pc = "done" \/ ENABLED NextTools

AssistantIds == [k \in 1..Len(task.tool_calls) |-> task.tool_calls[k].id]

\* C14: in the log persisted by handle_tool_calls the ids of the calls of the
\* assistant message are pairwise distinct, and each is the tool_call_id of
\* exactly one of the tool messages that follow.
C14_ToolCallIdsUniqueAndPaired ==
    task.pc = "done" =>
        /\ \A j, k \in 1..Len(AssistantIds) : j # k => AssistantIds[j] # AssistantIds[k]
        /\ \A k \in 1..Len(AssistantIds) :
              Cardinality({j \in 1..Len(task.tool_calls) :
                              /\ TaskLog[Base + j].role = "tool"
                              /\ TaskLog[Base + j].tool_call_id = AssistantIds[k]}) = 1

-----------------------------------------------------------------------------
(* The request handler: chat_completions of src/main.py, and for its       *)
(* responses chat_completions of src/proxy.py (a second application with   *)
(* no session store).  One request is handled; what the store holds when   *)
(* it arrives was saved by earlier requests.  Each action is the code      *)
(* between two awaits.                                                     *)

\* config.SUPPORTED_MODELS and config.DEFAULT_MODEL
SUPPORTED_MODELS == {"llama3.1", "mistral", "qwen2.5"}

DEFAULT_MODEL == "llama3.1"

\* the models a request may name; "" stands for no model in the body
RequestModels == {"", "llama3.1", "ollama/llama3", "gpt-4"}

\* model.startswith("ollama/"), for the models of the requests
StartsWithOllama(model) == model = "ollama/llama3"

\* the default of max_tokens, src/conversation_manager.py line 126
DefaultMaxTokens == 4096

\* the session key made up for a request without session_id, line 236
DerivedSession == "session_0"

\* the key made up for a later request whose body is at another address
FreshSession == "session_1"

ChatSessions == {"s1", DerivedSession, FreshSession}

ChatMessages ==
    {<<>>, <<Msg("user", "hi", <<>>)>>, <<Msg("system", "sys", <<>>), Msg("user", "hi", <<>>)>>,
     <<Msg("user", "huge", <<>>), Msg("user", "hi", <<>>)>>,
     <<Msg("system", "sys", <<>>), Msg("user", "q", <<>>)>>}

\* what earlier requests may have left for session s1: nothing, an empty list,
\* or a log with or without the system message
StoredLogs ==
    {<<>>, <<Msg("user", "q", <<>>)>>, <<Msg("system", "sys", <<>>), Msg("user", "q", <<>>)>>}

\* a request: its body is malformed (not JSON), or a JSON object
Request(app, body_ok, model, has_session_id, msgs, stream) ==
    [app |-> app, body_ok |-> body_ok, model |-> model, has_session_id |-> has_session_id,
     session_id |-> IF has_session_id THEN "s1" ELSE "", messages |-> msgs,
     stream |-> stream, derived |-> DerivedSession]

Requests ==
    {Request(app, FALSE, "", FALSE, <<>>, FALSE) : app \in {"main", "proxy"}}
    \cup {Request(app, TRUE, m, h, msgs, st) :
             app \in {"main", "proxy"}, m \in RequestModels, h \in BOOLEAN,
             msgs \in ChatMessages, st \in BOOLEAN}

\* what the backend does with a request: it is unreachable, or it answers with
\* a status and a body that is or is not JSON
OllamaResponse(reachable, status_ok, is_json, content, tool_calls) ==
    [reachable |-> reachable, status_ok |-> status_ok, is_json |-> is_json,
     content |-> content, tool_calls |-> tool_calls]

ChatCalls ==
    {<<BackendCall(FALSE, "", "builtin_read_file", ToolArguments("builtin_read_file"))>>,
     <<BackendCall(TRUE, "call_1", "no_such_tool", <<>>),
       BackendCall(FALSE, "", "builtin_run_terminal_command",
                   ToolArguments("builtin_run_terminal_command"))>>}

OllamaResponses ==
    {OllamaResponse(FALSE, FALSE, FALSE, "", <<>>),
     OllamaResponse(TRUE, FALSE, TRUE, "", <<>>),
     OllamaResponse(TRUE, FALSE, FALSE, "", <<>>),
     OllamaResponse(TRUE, TRUE, TRUE, "", <<>>),
     OllamaResponse(TRUE, TRUE, TRUE, "ans", <<>>)}
    \cup {OllamaResponse(TRUE, TRUE, TRUE, c, t) : c \in {"", "ans"}, t \in ChatCalls}

\* the message of a response: a key that is absent has the flag FALSE
ResponseMessage(has_content, content, has_tool_calls, tool_calls) ==
    [role |-> "assistant", has_content |-> has_content, content |-> content,
     has_tool_calls |-> has_tool_calls, tool_calls |-> tool_calls]

\* the responses a client can get: none yet, a completion object, a JSON object
\* {"error": ...}, the framework's plain "Internal Server Error" for an
\* exception that nothing catches, or an event stream
Response(kind, ok, choices) == [kind |-> kind, ok |-> ok, choices |-> choices]

NoResponse == Response("none", FALSE, <<>>)

Completion(message, finish_reason) ==
    Response("completion", TRUE, <<[message |-> message, finish_reason |-> finish_reason]>>)

ErrorObject(ok) == Response("error", ok, <<>>)

Unhandled == Response("unhandled", FALSE, <<>>)

EventStream == Response("stream", TRUE, <<>>)

NoTask ==
    [pc |-> "none", session_id |-> "", messages |-> <<>>, backend_calls |-> <<>>,
     tool_calls |-> <<>>, new_messages |-> <<>>, i |-> 1, outcomes |-> <<>>]

\* the locals of chat_completions for a request that has just arrived.  first
\* tells the first request of a run from one that follows it; existed and
\* history are what lines 247-248 read from the store; conn is the connection
\* to the backend on the streaming path, loaded tells that the whole body of
\* the backend's response was read into memory, out is what the client has
\* been sent of the event stream
NoChat ==
    [pc |-> "received", session_id |-> "", messages |-> <<>>, ollama_request |-> <<>>,
     answer |-> <<>>, saved_before_call |-> FALSE, first |-> TRUE,
     existed |-> FALSE, history |-> <<>>, conn |-> "none", loaded |-> FALSE,
     out |-> <<>>, stream_error |-> FALSE, client_gone |-> FALSE]

\* the health endpoint has not been called
NoHealth == [status |-> "none"]

\* lines 262-263 and 41-65: the request sent to the backend
transform_to_ollama(body) ==
    [model |-> IF body.model = "" THEN DEFAULT_MODEL ELSE body.model,
     messages |-> body.messages, stream |-> body.stream]

\* lines 228-229
Supported(model) == model \in SUPPORTED_MODELS \/ StartsWithOllama(model)

ModelOf(body) == IF body.model = "" THEN DEFAULT_MODEL ELSE body.model

\* lines 247-254: the history merge; IndexError when the stored list is empty
\* and the request starts with a system message
MergeRaises(msgs, exists, history) ==
    exists /\ msgs # <<>> /\ msgs[1].role = "system" /\ history = <<>>

Merge(msgs, exists, history) ==
    IF ~exists THEN msgs
    ELSE IF msgs = <<>> THEN history
    ELSE IF /\ msgs[1].role = "system"
            /\ history[1].role = "system"
            /\ msgs[1].content = history[1].content
         THEN history
         ELSE msgs

InitChat ==
    /\ BudgetIdle
    /\ ExecIdle
    /\ StreamIdle
    /\ \E mode \in BOOLEAN :
          /\ use_redis = mode
          /\ redis_up = mode
          /\ startup = [available |-> mode, ping |-> mode, mode |-> mode]
    /\ \E stored \in BOOLEAN, log \in StoredLogs :
          /\ redis = [s \in ChatSessions |->
                         IF use_redis /\ stored /\ s = "s1"
                         THEN [present |-> TRUE, data |-> json_dumps(log),
                               has_ttl |-> TRUE, ttl |-> expiry]
                         ELSE NoKey]
          /\ files = [s \in ChatSessions |->
                         IF ~use_redis /\ stored /\ s = "s1"
                         THEN [present |-> TRUE, data |-> json_dumps(log)]
                         ELSE NoFile]
          /\ saved = [s \in ChatSessions |->
                         IF stored /\ s = "s1" THEN [any |-> TRUE, msgs |-> log]
                         ELSE [any |-> FALSE, msgs |-> <<>>]]
    /\ idle = [s \in ChatSessions |-> 0]
    /\ lastOp = NoOp
    /\ req \in Requests
    /\ chat = NoChat
    /\ backend = <<>>
    /\ resp = NoResponse
    /\ task = NoTask
    /\ health = NoHealth

\* src/main.py line 225 raises for a body that is not JSON, and nothing
\* catches it
MalformedBody ==
    /\ req.app = "main"
    /\ chat.pc = "received"
    /\ ~req.body_ok
    /\ resp' = Unhandled
    /\ chat' = [chat EXCEPT !.pc = "done"]
    /\ UNCHANGED <<budgetVars, storeVars, streamVars, task, req, backend, health, execVars>>

\* lines 228-230: the model is not supported
UnsupportedModel ==
    /\ req.app = "main"
    /\ chat.pc = "received"
    /\ req.body_ok
    /\ ~Supported(ModelOf(req))
    /\ resp' = ErrorObject(TRUE)
    /\ chat' = [chat EXCEPT !.pc = "done"]
    /\ UNCHANGED <<budgetVars, storeVars, streamVars, task, req, backend, health, execVars>>

\* lines 236-254 when the history merge raises IndexError
MergeFails ==
    /\ req.app = "main"
    /\ chat.pc = "received"
    /\ req.body_ok
    /\ Supported(ModelOf(req))
    /\ LET session_id == IF req.has_session_id THEN req.session_id ELSE req.derived
       IN  /\ MergeRaises(req.messages, ExistsValue(session_id), HistoryValue(session_id))
           /\ chat' = [chat EXCEPT !.pc = "done", !.session_id = session_id]
    /\ resp' = Unhandled
    /\ UNCHANGED <<budgetVars, storeVars, streamVars, task, req, backend, health, execVars>>

\* lines 236-263: session key, history merge, budgeter, save, backend request
PrepareRequest ==
    /\ req.app = "main"
    /\ chat.pc = "received"
    /\ req.body_ok
    /\ Supported(ModelOf(req))
    /\ LET session_id == IF req.has_session_id THEN req.session_id ELSE req.derived
           exists == ExistsValue(session_id)
           history == HistoryValue(session_id)
           msgs == manage_context_window(Merge(req.messages, exists, history),
                                         DefaultMaxTokens)
       IN  /\ ~MergeRaises(req.messages, exists, history)
           /\ SaveMessage(session_id, msgs)
           /\ chat' = [chat EXCEPT !.pc = "calling", !.session_id = session_id,
                                   !.messages = msgs,
                                   !.ollama_request = transform_to_ollama(req),
                                   !.saved_before_call = TRUE,
                                   !.existed = exists, !.history = history]
    /\ UNCHANGED <<streamVars, task, req, backend, resp, health, execVars>>

\* lines 289-315: the message of the response to a backend answer with tool calls
ToolCallsMessage_with_content(answer) ==
    ResponseMessage(TRUE, answer.content, TRUE, transform_tool_calls(answer.tool_calls))

ToolCallsMessage(answer) ==
    ResponseMessage(FALSE, "", TRUE, transform_tool_calls(answer.tool_calls))

\* the model follows one background task in a run: a backend answer with tool
\* calls is taken up when no task has been scheduled before
TaskSlotFree == task.pc = "none"

\* lines 266-331: the backend has answered, or could not be reached
MainRespond(answer) ==
    /\ req.app = "main"
    /\ chat.pc = "calling"
    /\ backend' = Append(backend, chat.ollama_request)
    /\ IF ~answer.reachable
       THEN \* client.post or client.stream raises httpx.ConnectError
            /\ resp' = Unhandled
            /\ chat' = [chat EXCEPT !.pc = "done", !.answer = answer]
            /\ UNCHANGED task
       ELSE IF req.stream
       THEN \* lines 267-272: the backend's response has begun, with no look at
            \* the status; its body is still to be read over the connection
            /\ chat' = [chat EXCEPT !.pc = "opened", !.answer = answer, !.conn = "open"]
            /\ UNCHANGED <<resp, task>>
       ELSE IF ~answer.is_json
       THEN \* line 287: response.json() raises
            /\ resp' = Unhandled
            /\ chat' = [chat EXCEPT !.pc = "done", !.answer = answer]
            /\ UNCHANGED task
       ELSE IF answer.tool_calls # <<>>
       THEN /\ TaskSlotFree
            /\ resp' = Completion(ToolCallsMessage(answer), "tool_calls")
            /\ chat' = [chat EXCEPT !.pc = "done", !.answer = answer]
            /\ task' = NewTask(chat.session_id, chat.messages, answer.tool_calls)
       ELSE /\ resp' = Completion(ResponseMessage(TRUE, answer.content, FALSE, <<>>), "stop")
            /\ chat' = [chat EXCEPT !.pc = "done", !.answer = answer]
            /\ UNCHANGED task
    /\ UNCHANGED <<budgetVars, storeVars, streamVars, req, health, execVars>>

\* the lines of the body of the backend's response on the streaming path: one
\* line that is not JSON, one JSON object of an error status, or a chunk with
\* the message and a chunk with done
AnswerLines(answer) ==
    IF ~answer.is_json THEN <<MalformedLine>>
    ELSE IF ~answer.status_ok THEN <<ChunkLine("", <<>>, FALSE)>>
    ELSE (IF answer.content # "" \/ answer.tool_calls # <<>>
          THEN <<ChunkLine(answer.content, answer.tool_calls, FALSE)>> ELSE <<>>)
         \o <<ChunkLine("", <<>>, TRUE)>>

\* response.aiter_lines(): the lines of a body already in memory, or the lines
\* read over the connection; reading from a response that was closed before
\* its body was read raises httpx.StreamClosed
aiter_lines(conn, loaded, stream) ==
    IF loaded \/ conn = "open"
    THEN [raised |-> FALSE, lines |-> stream]
    ELSE [raised |-> TRUE, lines |-> <<>>]

\* lines 273-276: return StreamingResponse(...) from inside the two async with
\* blocks; leaving them closes the response and the client, and the generator
\* transform_ollama_stream has not run yet
MainReturnStream ==
    /\ req.app = "main"
    /\ chat.pc = "opened"
    /\ chat' = [chat EXCEPT !.pc = "streaming", !.conn = "closed"]
    /\ resp' = EventStream
    /\ UNCHANGED <<budgetVars, storeVars, streamVars, task, req, backend, health, execVars>>

\* the server iterates the generator given to StreamingResponse, lines 101-162
MainStreamBody ==
    /\ req.app = "main"
    /\ chat.pc = "streaming"
    /\ LET read == aiter_lines(chat.conn, chat.loaded, AnswerLines(chat.answer))
       IN  chat' = [chat EXCEPT !.pc = "done", !.stream_error = read.raised,
                               !.out = IF read.raised THEN <<>>
                                       ELSE transform_ollama_stream(read.lines)]
    /\ UNCHANGED <<budgetVars, storeVars, streamVars, task, req, backend, resp, health, execVars>>

\* call_ollama, src/proxy.py lines 72-82: the request sent to the backend
ProxyOllamaRequest(body) ==
    [model |-> IF body.model = "" THEN "qwen2.5-coder:7b-instruct" ELSE body.model,
     messages |-> IF /\ body.messages # <<>>
                     /\ \A k \in 1..Len(body.messages) : body.messages[k].role # "system"
                  THEN <<Msg("system", "You are a helpful AI coding assistant.", <<>>)>>
                       \o body.messages
                  ELSE body.messages,
     stream |-> body.stream]

\* src/proxy.py lines 223-234 and 266-271: the body is read inside the try
ProxyPrepare ==
    /\ req.app = "proxy"
    /\ chat.pc = "received"
    /\ IF ~req.body_ok
       THEN /\ resp' = ErrorObject(FALSE)
            /\ chat' = [chat EXCEPT !.pc = "done"]
       ELSE /\ chat' = [chat EXCEPT !.pc = "calling",
                                    !.ollama_request = ProxyOllamaRequest(req)]
            /\ UNCHANGED resp
    /\ UNCHANGED <<budgetVars, storeVars, streamVars, task, req, backend, health, execVars>>

\* transform_to_openai_format, src/proxy.py lines 112-149
transform_to_openai_format(answer) ==
    Completion(ResponseMessage(TRUE, answer.content, FALSE, <<>>), "stop")

\* src/proxy.py lines 236-271 and call_ollama, lines 86-110
ProxyRespond(answer) ==
    /\ req.app = "proxy"
    /\ chat.pc = "calling"
    /\ backend' = Append(backend, chat.ollama_request)
    /\ IF answer.reachable /\ req.stream
       THEN \* call_ollama, lines 86-96: client.post reads the whole body, and
            \* leaving the async with block closes the client
            /\ chat' = [chat EXCEPT !.pc = IF answer.status_ok THEN "streaming" ELSE "done",
                                    !.answer = answer, !.conn = "closed",
                                    !.loaded = TRUE]
            /\ resp' = IF answer.status_ok THEN EventStream ELSE ErrorObject(FALSE)
       ELSE /\ chat' = [chat EXCEPT !.pc = "done", !.answer = answer]
            /\ resp' = IF ~answer.reachable THEN ErrorObject(FALSE)
                       ELSE IF ~answer.is_json THEN ErrorObject(FALSE)
                       ELSE transform_to_openai_format(answer)
    /\ UNCHANGED <<budgetVars, storeVars, streamVars, task, req, health, execVars>>

\* the server iterates process_streaming_response, src/proxy.py lines 151-210
ProxyStreamBody ==
    /\ req.app = "proxy"
    /\ chat.pc = "streaming"
    /\ LET read == aiter_lines(chat.conn, chat.loaded, AnswerLines(chat.answer))
       IN  chat' = [chat EXCEPT !.pc = "done", !.stream_error = read.raised,
                               !.out = IF read.raised THEN <<>>
                                       ELSE process_streaming_response(read.lines)]
    /\ UNCHANGED <<budgetVars, storeVars, streamVars, task, req, backend, resp, health, execVars>>

\* the client goes away once the response has begun: the server stops an
\* event stream that is still to be produced; a scheduled background task is
\* not the client's and is left alone
ClientDisconnects ==
    /\ chat.pc \in {"streaming", "done"}
    /\ ~chat.client_gone
    /\ chat' = [chat EXCEPT !.pc = "done", !.client_gone = TRUE]
    /\ UNCHANGED <<budgetVars, storeVars, streamVars, task, req, backend, resp, health, execVars>>

\* health_check, src/main.py lines 334-337 and src/proxy.py lines 333-336
HealthResponse_error(app) == [status |-> "error"]

HealthResponse(app) == [status |-> IF app = "main" THEN "ok" ELSE "healthy"]

HealthCheck ==
    /\ health' = HealthResponse(req.app)
    /\ UNCHANGED <<budgetVars, storeVars, streamVars, task, req, chat, backend, resp, execVars>>

NextChat ==
    \/ MalformedBody
    \/ UnsupportedModel
    \/ MergeFails
    \/ PrepareRequest
    \/ \E answer \in OllamaResponses : MainRespond(answer)
    \/ ProxyPrepare
    \/ \E answer \in OllamaResponses : ProxyRespond(answer)
    \/ MainReturnStream
    \/ MainStreamBody
    \/ ProxyStreamBody
    \/ ClientDisconnects
    \/ HealthCheck
    \/ StartTask
    \/ \E outcome \in Outcomes : ExecuteCall(outcome)
    \/ CallNeverReturns
    \/ Persist

SpecChat == InitChat /\ [][NextChat]_vars

\* a second request on the session of the first.  A handler touches the store
\* in lines 236-260 only, which run without an await, so the store sees the
\* handlers of concurrent requests one after the other, as here; the steps of
\* a background task scheduled by the first request interleave with the second
SessionRequests ==
    {Request("main", TRUE, "llama3.1", h, msgs, FALSE) : h \in BOOLEAN, msgs \in ChatMessages}

\* id(body) of line 236 for a request that arrives when the body of the first
\* has been freed: the address of the first body again, or another address
LaterRequests ==
    SessionRequests
    \cup {[r EXCEPT !.derived = FreshSession] : r \in {q \in SessionRequests : ~q.has_session_id}}

InitSession == InitChat /\ req \in SessionRequests

NextRequest ==
    /\ chat.pc = "done"
    /\ chat.first
    /\ req' \in LaterRequests
    /\ chat' = [NoChat EXCEPT !.first = FALSE]
    /\ resp' = NoResponse
    /\ UNCHANGED <<budgetVars, storeVars, streamVars, task, backend, health, execVars>>

NextSession ==
    \/ MergeFails
    \/ PrepareRequest
    \/ \E answer \in OllamaResponses : MainRespond(answer)
    \/ NextRequest
    \/ StartTask
    \/ \E outcome \in Outcomes : ExecuteCall(outcome)
    \/ CallNeverReturns
    \/ Persist

SpecSession == InitSession /\ [][NextSession]_vars

-----------------------------------------------------------------------------
(* Properties of the request handler, under SpecChat *)

Responded == chat.pc = "done"

\* the backend was called and has answered, or could not be reached
Answered == Responded /\ backend # <<>>

\* C15: a successful non-streaming completion has a first choice with a
\* message; the choice carries either text content with finish_reason stop or
\* the translated tool calls with finish_reason tool_calls, never both.
C15_ContentOrToolCalls ==
    resp.kind = "completion" =>
        /\ ~req.stream
        /\ Len(resp.choices) >= 1
        /\ LET choice == resp.choices[1]
               message == choice.message
           IN  \/ /\ message.has_content
                  /\ ~message.has_tool_calls
                  /\ message.tool_calls = <<>>
                  /\ choice.finish_reason = "stop"
               \/ /\ message.has_tool_calls
                  /\ message.tool_calls # <<>>
                  /\ message.tool_calls = transform_tool_calls(chat.answer.tool_calls)
                  /\ ~message.has_content
                  /\ message.content = ""
                  /\ choice.finish_reason = "tool_calls"

C15_Witness ==
    /\ req.app = "main"
    /\ resp.kind = "completion"
    /\ chat.answer.content = "ans"
    /\ Len(chat.answer.tool_calls) = 2
    /\ resp.choices[1].finish_reason = "tool_calls"
    /\ Len(resp.choices[1].message.tool_calls) = 2
    /\ ~resp.choices[1].message.has_content

IsClientInputError(r) == ~r.body_ok \/ ~Supported(ModelOf(r))

\* C19: a request of src/main.py with a malformed body or an unsupported model
\* is answered with a structured error, no store operation has run (the keys
\* and files are those found at arrival) and the backend has received nothing.
C19_ClientErrorHasNoEffect ==
    req.app = "main" /\ Responded /\ IsClientInputError(req) =>
        /\ resp.kind = "error"
        /\ lastOp = NoOp
        /\ \A s \in ChatSessions :
              /\ ExistsValue(s) = saved[s].any
              /\ HistoryValue(s) = saved[s].msgs
        /\ backend = <<>>
        /\ task = NoTask

\* C20: when the backend is unreachable or answers with a non-2xx status, the
\* client gets a structured error and not a completion, and the session saved
\* before the call is still what the store holds.
C20_BackendErrorIsReported ==
    Answered /\ (~chat.answer.reachable \/ ~chat.answer.status_ok) =>
        /\ resp.kind = "error"
        /\ req.app = "main" =>
              /\ chat.saved_before_call
              /\ ExistsValue(chat.session_id)
              /\ HistoryValue(chat.session_id) = chat.messages

-----------------------------------------------------------------------------
(* The packing loop of manage_context_window, lines 175-187.               *)

\* the sequence contributed no message: the loop took neither line 178 nor 187
DroppedWhole(sequence) ==
    \A j \in 1..Len(sequence) : (sequence[j] + Offset) \notin KeptPositions

\* C30: on the sequence-packing path the loop stops at the first sequence, from
\* the most recent, of which neither the whole nor the last message fits: no
\* sequence older than one that contributed nothing contributes a message.
C30_PackingStopsAtFirstMisfit ==
    (Done /\ PackingPath) =>
        LET sequences == SequencePositions(Rest) IN
        \A k \in 1..Len(sequences) :
            DroppedWhole(sequences[k])
                => \A h \in 1..(k - 1) : DroppedWhole(sequences[h])

-----------------------------------------------------------------------------
(* Shell commands on the tool path, under SpecTools.  handle_tool_calls     *)
(* calls tool_executor.execute_tool (src/main.py line 199), so a shell      *)
(* command runs in ToolExecutor.run_terminal_command; the time limits of    *)
(* SecureExecutor (src/secure_executor.py lines 56-137) are not on the path.*)

\* the loop is at a call of a shell command, dispatched or about to be
AtShellCommand ==
    /\ task.pc \in {"loop", "blocked"}
    /\ task.i <= Len(task.tool_calls)
    /\ task.tool_calls[task.i].function.name \in AwaitsSubprocess

\* C25: a shell command dispatched through the tool path yields a result (its
\* output, an error, or a timeout error after it was killed): the loop is never
\* left waiting for it, and the call's tool message can always be appended.
C25_ShellCommandYieldsResult ==
    AtShellCommand =>
        /\ task.pc # "blocked"
        /\ ENABLED (\E outcome \in Outcomes : ExecuteCall(outcome))

-----------------------------------------------------------------------------
(* What the backend is sent, under SpecChat *)

\* the request the backend received for the request being handled
Sent == backend[Len(backend)]

\* C21: the message list src/main.py sends to the backend is the list the
\* budgeter returned for the session-merged messages, the list saved before
\* the call, and its estimated cost is within the default budget.
C21_BackendGetsBudgetedMessages ==
    (req.app = "main" /\ chat.saved_before_call /\ backend # <<>>
        /\ chat.answer.reachable) =>
        /\ Sent.messages = chat.messages
        /\ estimate_token_count(Sent.messages) <= DefaultMaxTokens

-----------------------------------------------------------------------------
(* The round trip of src/main.py, under SpecChat: the request to the       *)
(* backend form, and the backend's non-streaming answer to the response.   *)

\* the message of the completion returned to the client
Returned == resp.choices[1].message

-----------------------------------------------------------------------------
(* The health endpoint of src/main.py, under SpecChat *)

\* C29: the health endpoint can be called in every state; every call returns
\* the static status ok, and changes nothing but the response it returns.
C29_HealthIsStaticAndPure ==
    /\ [](req.app = "main" => ENABLED HealthCheck)
    /\ [][(req.app = "main" /\ health' # health) =>
             /\ health' = [status |-> "ok"]
             /\ UNCHANGED <<budgetVars, storeVars, streamVars, task, req, chat,
                            backend, resp>>]_vars

\* the endpoint has answered while the session is stored and the background
\* task waits for a shell command
C29_Witness ==
    /\ req.app = "main"
    /\ health = [status |-> "ok"]
    /\ task.pc = "blocked"
    /\ ExistsValue(chat.session_id)

-----------------------------------------------------------------------------
(* The backend connection on the streaming path, under SpecChat *)

\* the event stream has been produced to its end
StreamEnded == chat.out # <<>> /\ chat.out[Len(chat.out)] = DoneSentinel

\* C27: on the streaming path the backend connection is open while frames are
\* produced: it is closed only when the stream has ended or the client has
\* gone, and no read of the backend's lines is made on a closed connection.
C27_ConnectionHeldWhileStreaming ==
    (req.stream /\ resp.kind = "stream") =>
        /\ (chat.conn = "closed" /\ ~chat.client_gone) => StreamEnded
        /\ ~chat.stream_error

-----------------------------------------------------------------------------
(* Backend answers with tool calls, under SpecChat *)

\* the backend has answered the request of src/main.py with tool calls and
\* the handler and the event stream, if any, are through
ToolCallsAnswered ==
    /\ req.app = "main"
    /\ Answered
    /\ chat.answer.reachable
    /\ chat.answer.is_json
    /\ chat.answer.tool_calls # <<>>

\* C22: when the backend's answer carries tool calls, on the non-streaming and
\* on the streaming path, handle_tool_calls is scheduled with the calls; until
\* it has completed it can take a step, and when it has, the session's log is
\* the saved messages, one assistant message and one tool message per call.
C22_ToolCallsStartOrchestrator ==
    ToolCallsAnswered =>
        /\ task.pc # "none"
        /\ task.backend_calls = chat.answer.tool_calls
        /\ task.pc = "done" \/ ENABLED NextTools
        /\ task.pc = "done" =>
              Len(TaskLog) = Len(task.messages) + 1 + Len(chat.answer.tool_calls)

-----------------------------------------------------------------------------
(* The background task and the client, under SpecChat *)

\* C26: once handle_tool_calls has been scheduled for a response, the client's
\* going away does not cancel it: until it has completed it can take a step (a
\* call returns or times out, or the log is persisted), and when it has
\* completed the session's log holds one tool message per call.
C26_DispatchedToolsOutliveClient ==
    (chat.client_gone /\ task.pc # "none") =>
        /\ task.pc = "done" \/ ENABLED NextTools
        /\ task.pc = "done" =>
              Len(TaskLog) = Len(task.messages) + 1 + Len(task.tool_calls)

-----------------------------------------------------------------------------
(* Two requests on one session, under SpecSession *)

\* the log stored for the session of the request being handled
SessionLog == HistoryValue(chat.session_id)

\* the second request has saved its messages, no background task was
\* scheduled in the run, and the log it found and its own messages are
\* together within the budget, so that the budgeter removes nothing
SecondSavedInTurn ==
    /\ ~chat.first
    /\ chat.pc = "calling"
    /\ chat.existed
    /\ task.pc = "none"
    /\ estimate_token_count(chat.history \o req.messages) <= DefaultMaxTokens

\* C23: when requests on one session are processed one after the other, the
\* log stored by the later request still holds the messages the earlier one
\* persisted, in their order, and holds the messages the later request
\* submitted, in their order.
C23_SequentialRequestsKeepMessages ==
    SecondSavedInTurn =>
        /\ IsSubsequence(chat.history, SessionLog)
        /\ IsSubsequence(req.messages, SessionLog)

\* C24: nothing serializes a request with the background task of its session:
\* when the task persists, the stored log becomes the list the task built from
\* the messages it was given when it was scheduled, whatever a request has
\* saved for the session since then, so that such a save can be lost.
C24_StaleTaskOverwritesLog ==
    [][(task.pc = "loop" /\ task'.pc = "done") =>
          HistoryValueOf(use_redis', redis', files', task.session_id)
             = task.new_messages]_vars

\* a lost update: the second request saved its messages while the task of the
\* first was running, the task then persisted its own list, and a message the
\* second request had persisted is not in the stored log
C24_Witness ==
    /\ task.pc = "done"
    /\ ~chat.first
    /\ chat.saved_before_call
    /\ chat.session_id = task.session_id
    /\ SessionLog = task.new_messages
    /\ \E k \in 1..Len(chat.messages) : chat.messages[k] \notin Range(SessionLog)

-----------------------------------------------------------------------------
(* The low-budget path of manage_context_window, lines 153-169, under       *)
(* SpecBudget.                                                              *)

\* the call took the low-budget path
LowBudgetPath == OverBudget /\ max_tokens - SystemTokens < LowBudgetThreshold

\* the last j messages of the list without the system message fit what the
\* system message leaves of the budget
SuffixFits(j) ==
    estimate_token_count(SubSeq(Rest, Len(Rest) - j + 1, Len(Rest)))
        <= max_tokens - SystemTokens

\* the length of the longest suffix that fits, 0 when no message fits
LongestSuffix ==
    LET fitting == {j \in 1..Len(Rest) : SuffixFits(j)}
    IN  IF fitting = {} THEN 0
        ELSE CHOOSE j \in fitting : \A h \in fitting : h <= j

\* C31: on the low-budget path, for a budget of any sign, the result is the
\* system message, if any, followed by exactly the longest contiguous suffix
\* of the other messages whose estimate fits the remaining budget.
C31_LowBudgetKeepsLongestSuffix ==
    (Done /\ LowBudgetPath) =>
        /\ resultIdx =
              (IF HasSystem(messages) THEN <<1>> ELSE <<>>)
              \o [k \in 1..LongestSuffix |-> Len(messages) - LongestSuffix + k]
        /\ result = [k \in 1..Len(resultIdx) |-> messages[resultIdx[k]]]

\* a suffix of two messages is kept behind the system message; the message
\* before them would fit by itself but not together with them, and is left out
C31_Witness ==
    /\ Done
    /\ LowBudgetPath
    /\ HasSystem(messages)
    /\ Len(messages) = 4
    /\ resultIdx = <<1, 3, 4>>
    /\ EstimateMsg(messages[2]) <= max_tokens - SystemTokens

-----------------------------------------------------------------------------
(* The estimator, lines 192-238, under SpecBudget *)

\* the charge of one message with its content counted once
RECURSIVE SumCharges(_)
SumCharges(msgs) ==
    IF msgs = <<>> THEN 0
    ELSE 4 + (TextLen(Head(msgs).content) \div 4)
           + 5 * Len(Head(msgs).tool_calls) + SumCalls(Head(msgs).tool_calls, 1)
           + SumCharges(Tail(msgs))

\* C32: the estimate of a message of any role, the tool role included, is 4,
\* plus a quarter of the content's length counted once, plus 5 and a quarter
\* of the name's and of the arguments' length for each tool call, and the
\* estimate of a list is the sum over its messages.
C32_EstimateCountsContentOnce ==
    Done =>
        /\ \A k \in 1..Len(messages) :
              EstimateMsg(messages[k]) = SumCharges(<<messages[k]>>)
        /\ estimate_token_count(messages) = SumCharges(messages)

-----------------------------------------------------------------------------
(* What manage_context_window returns, lines 126-190, under SpecBudget *)

\* C33: every returned message is a message of the input, unchanged and taken
\* from a place of its own in the input, so that none occurs more often than
\* there; and no returned message has an estimate above the whole budget.
C33_OutputIsInputWithoutOversized ==
    Done =>
        /\ Len(result) = Len(resultIdx)
        /\ \A k \in 1..Len(result) :
              /\ resultIdx[k] \in 1..Len(messages)
              /\ result[k] = messages[resultIdx[k]]
              /\ \A h \in 1..Len(result) : resultIdx[h] = resultIdx[k] => h = k
        /\ \A k \in 1..Len(result) : EstimateMsg(result[k]) <= max_tokens

-----------------------------------------------------------------------------
(* _identify_tool_sequences, lines 240-291, on the lists of SpecBudget *)

RECURSIVE Flatten(_)
Flatten(seqs) == IF seqs = <<>> THEN <<>> ELSE Head(seqs) \o Flatten(Tail(seqs))

StartsToolSequence(msg) == msg.role = "assistant" /\ HasToolCalls(msg)

\* C34: the sequences partition the list: joined in order they are the list,
\* none is empty, a sequence of more than one message is an assistant message
\* with tool calls followed by tool messages only, and such a run is maximal:
\* the message after it, if any, is not a tool message.
C34_SequencesPartitionInput ==
    LET sequences == SequencePositions(messages)
    IN  /\ Flatten(sequences) = [k \in 1..Len(messages) |-> k]
        /\ Flatten(identify_tool_sequences(messages)) = messages
        /\ \A k \in 1..Len(sequences) :
              LET sequence == sequences[k]
              IN  /\ sequence # <<>>
                  /\ Len(sequence) > 1 =>
                        /\ StartsToolSequence(messages[sequence[1]])
                        /\ \A j \in 2..Len(sequence) : messages[sequence[j]].role = "tool"
                  /\ (StartsToolSequence(messages[sequence[1]])
                         /\ sequence[Len(sequence)] < Len(messages)) =>
                        messages[sequence[Len(sequence)] + 1].role # "tool"

\* a tool message with no call before it, then a call with its two results
C34_Witness ==
    /\ Done
    /\ Len(messages) = 4
    /\ messages[1].role = "tool"
    /\ SequencePositions(messages) = <<<<1>>, <<2, 3, 4>>>>

-----------------------------------------------------------------------------
(* The identifiers transform_tool_calls gives, lines 68-88, under SpecTools *)

\* C35: a translated call has the identifier the backend supplied, and for a
\* call without one the identifier call_<index>, the index being the call's
\* place in the list counted from 0; translating the list again gives the
\* same identifiers.
C35_IdsKeptOrSynthetic ==
    /\ Len(task.tool_calls) = Len(task.backend_calls)
    /\ \A k \in 1..Len(task.backend_calls) :
          /\ task.backend_calls[k].has_id =>
                task.tool_calls[k].id = task.backend_calls[k].id
          /\ ~task.backend_calls[k].has_id =>
                task.tool_calls[k].id = "call_" \o ToString(k - 1)
          /\ transform_tool_calls(task.backend_calls)[k].id = task.tool_calls[k].id

\* the first call came without an identifier, the second with one, and the
\* log with both identifiers has been persisted
C35_Witness ==
    /\ task.pc = "done"
    /\ Len(task.backend_calls) = 2
    /\ ~task.backend_calls[1].has_id
    /\ task.backend_calls[2].has_id
    /\ task.tool_calls[1].id = "call_0"
    /\ task.tool_calls[2].id = "call_1"

-----------------------------------------------------------------------------
(* The history merge of chat_completions, lines 246-254, under SpecChat *)

\* a request of src/main.py with a JSON body and a supported model has got
\* past the history merge, or has been answered
PastMerge ==
    /\ req.app = "main"
    /\ req.body_ok
    /\ Supported(ModelOf(req))
    /\ chat.pc # "received"

\* C36: whatever the store holds for the session, an empty log included, the
\* history merge completes without an error, and the list it yields, which
\* the budgeter is given, is the stored history or the request's messages.
C36_MergeNeverRaises ==
    PastMerge =>
        /\ chat.saved_before_call
        /\ \/ chat.messages = manage_context_window(chat.history, DefaultMaxTokens)
           \/ chat.messages = manage_context_window(req.messages, DefaultMaxTokens)

-----------------------------------------------------------------------------
(* Backend round trips of a request of src/main.py, under SpecChat *)

\* C37: a request makes at most one backend call, made by the handler in its
\* step from the call to the response; the background task that runs the
\* tools is scheduled by that step and sends nothing to the backend, and the
\* handler does not come back to the call once it has answered.
C37_OneBackendCallPerRequest ==
    [][req.app = "main" =>
          /\ Len(backend') <= 1
          /\ backend' # backend =>
                /\ chat.pc = "calling"
                /\ chat'.pc \in {"opened", "done"}
                /\ task.pc = "none"
          /\ (task.pc # "none" /\ task' # task) => backend' = backend
          /\ chat.pc = "done" => chat'.pc = "done"]_vars

\* the tools have run in the background and their results are persisted, and
\* the backend has been called once
C37_Witness ==
    /\ req.app = "main"
    /\ resp.kind = "completion"
    /\ task.pc = "done"
    /\ Len(task.tool_calls) = 2
    /\ Len(backend) = 1

-----------------------------------------------------------------------------
(* Requests without session_id, lines 235-260, under SpecSession *)

\* C38: a request without session_id has a session of its own: when it comes
\* to the store there is no log under its key, so it loads no log and
\* overwrites no log that another request has stored.
C38_DerivedSessionIsPrivate ==
    (req.app = "main" /\ ~req.has_session_id /\ chat.saved_before_call) =>
        /\ ~chat.existed
        /\ chat.messages = manage_context_window(req.messages, DefaultMaxTokens)

-----------------------------------------------------------------------------
(* The Tool Executor's file tools, src/tool_executor.py.  A path is the     *)
(* sequence of its components below the root directory; str(path) is the   *)
(* sequence of its characters.  The disk holds no symbolic links, so       *)
(* Path.resolve only folds the ".." components.                            *)

MaxParts == 3

\* the components a filepath argument is made of
Parts == {"..", "tmp", "ws", "ws2", "a"}

\* line 26: workspace_path = "/tmp/ws", and a sibling directory /tmp/ws2
Workspace == <<"tmp", "ws">>

Dirs == {<<>>, <<"tmp">>, <<"tmp", "ws">>, <<"tmp", "ws2">>}

DiskFiles == {<<"tmp", "ws", "a">>, <<"tmp", "ws2", "a">>}

\* the characters of a component
Spell(part) ==
    CASE part = ".."  -> <<".", ".">>
      [] part = "tmp" -> <<"t", "m", "p">>
      [] part = "ws"  -> <<"w", "s">>
      [] part = "ws2" -> <<"w", "s", "2">>
      [] part = "a"   -> <<"a">>

\* str(path) of an absolute path
RECURSIVE JoinParts(_)
JoinParts(path) ==
    IF path = <<>> THEN <<>>
    ELSE <<"/">> \o Spell(Head(path)) \o JoinParts(Tail(path))

PathStr(path) == IF path = <<>> THEN <<"/">> ELSE JoinParts(path)

\* str.startswith
StartsWith(str, prefix) ==
    Len(prefix) <= Len(str) /\ SubSeq(str, 1, Len(prefix)) = prefix

\* Path.resolve of an absolute path: ".." drops the component before it, and
\* the root is its own parent
RECURSIVE ResolveFrom(_, _)
ResolveFrom(done, parts) ==
    IF parts = <<>> THEN done
    ELSE IF Head(parts) = ".."
         THEN ResolveFrom(IF done = <<>> THEN <<>> ELSE SubSeq(done, 1, Len(done) - 1),
                          Tail(parts))
         ELSE ResolveFrom(Append(done, Head(parts)), Tail(parts))

Resolve(parts) == ResolveFrom(<<>>, parts)

\* self.workspace / filepath: an absolute filepath replaces the workspace
JoinWorkspace(filepath) ==
    IF filepath.absolute THEN filepath.parts ELSE Workspace \o filepath.parts

Raised == <<"ValueError">>

\* lines 387-393
resolve_path(filepath) ==
    LET path == Resolve(JoinWorkspace(filepath))
    IN  IF ~StartsWith(PathStr(path), PathStr(Resolve(Workspace)))
        THEN Raised
        ELSE path

FileTools == {"read_file", "edit_existing_file", "create_new_file", "list_directory"}

Filepaths == [absolute : BOOLEAN, parts : SeqsUpTo(Parts, MaxParts)]

InitExec ==
    /\ BudgetIdle
    /\ StoreIdle
    /\ StreamIdle
    /\ TaskIdle
    /\ ChatIdle
    /\ \E tool \in FileTools, filepath \in Filepaths :
          exec = [pc |-> "called", tool |-> tool, filepath |-> filepath,
                  path |-> <<>>, result |-> "none", read |-> {}, written |-> {}]

\* path.exists()
Exists(path) == path \in Dirs \cup DiskFiles

\* the outcome of a file tool: every exception becomes an error result
Finish(path, outcome, read, written) ==
    /\ exec' = [exec EXCEPT !.pc = "done", !.path = path, !.result = outcome,
                            !.read = read, !.written = written]
    /\ UNCHANGED <<budgetVars, storeVars, streamVars, task, chatVars>>

\* lines 70-87
ReadFile ==
    /\ exec.pc = "called"
    /\ exec.tool = "read_file"
    /\ LET path == resolve_path(exec.filepath)
       IN  IF path = Raised \/ ~Exists(path) \/ path \in Dirs
           THEN Finish(path, "error", {}, {})
           ELSE Finish(path, "content", {path}, {})

\* lines 89-110
EditExistingFile ==
    /\ exec.pc = "called"
    /\ exec.tool = "edit_existing_file"
    /\ LET path == resolve_path(exec.filepath)
       IN  IF path = Raised \/ ~Exists(path) \/ path \in Dirs
           THEN Finish(path, "error", {}, {})
           ELSE Finish(path, "success", {}, {path})

\* a proper prefix of the path is a file: mkdir and write_text fail
ThroughFile(path) ==
    \E k \in 0..(Len(path) - 1) : SubSeq(path, 1, k) \in DiskFiles

\* lines 112-134
CreateNewFile ==
    /\ exec.pc = "called"
    /\ exec.tool = "create_new_file"
    /\ LET path == resolve_path(exec.filepath)
       IN  IF path = Raised \/ path \in Dirs \/ ThroughFile(path)
           THEN Finish(path, "error", {}, {})
           ELSE Finish(path, "success", {}, {path})

\* lines 303-333
ListDirectory ==
    /\ exec.pc = "called"
    /\ exec.tool = "list_directory"
    /\ LET path == resolve_path(exec.filepath)
       IN  IF path = Raised \/ path \notin Dirs
           THEN Finish(path, "error", {}, {})
           ELSE Finish(path, "files", {path}, {})

NextExec == ReadFile \/ EditExistingFile \/ CreateNewFile \/ ListDirectory

SpecExec == InitExec /\ [][NextExec]_vars

-----------------------------------------------------------------------------
(* Properties of the file tools, under SpecExec *)

\* the path is the workspace directory or lies beneath it
InWorkspace(path) ==
    Len(Workspace) <= Len(path) /\ SubSeq(path, 1, Len(Workspace)) = Workspace

\* C39: _resolve_path returns only the workspace directory or a path beneath
\* it and raises for every other input, a sibling directory whose name begins
\* with the workspace's name included, so no file tool reads or writes
\* outside the workspace.
C39_ResolveStaysInWorkspace ==
    exec.pc = "done" =>
        /\ exec.path # Raised => InWorkspace(exec.path)
        /\ ~InWorkspace(Resolve(JoinWorkspace(exec.filepath))) => exec.path = Raised
        /\ \A path \in exec.read \cup exec.written : InWorkspace(path)

=============================================================================
